---- MODULE Spec2Model ----
(***************************************************************************)
(* Model of the cffirestore collection helpers (package cffirestore):      *)
(* the diff/batch updater (makeUpdateData, batchEach500Docs, BatchDocs,    *)
(* DeleteDocs, deepCopyMap) and the condition compiler (MakeQuery,         *)
(* parseOrderBy, CountDocs, Paginate, PaginateWithCount).                  *)
(*                                                                         *)
(* Go values of static type `any` are modelled as tagged records; the tag  *)
(* k is the dynamic type.                                                  *)
(***************************************************************************)
EXTENDS Integers, Sequences, FiniteSets, TLC

VARIABLES
    coll,           \* the documents of the collection
    pc,             \* position of the caller: "idle", "batch" (in the group
                    \* loop of BatchDocs), "done", "panic"
    call,           \* the call in progress or returned, with its arguments
    groups,         \* BatchDocs: _500Docs
    gi,             \* BatchDocs: index of the next group of the loop
    batchResults,   \* BatchDocs: batchResults
    errs,           \* BatchDocs: errs
    ret,            \* what the call returned
    log,            \* per bulk writer used: the writes handed to it, the
                    \* writes that succeeded and the error of the group
    dOld,           \* makeUpdateData: the oldDoc argument (field -> value)
    dFn,            \* makeUpdateData: the batchFn argument
    dRet,           \* makeUpdateData: the returned []firestore.Update
    dPc,            \* makeUpdateData: "call" before the call, "done" or
                    \* "panic" after
    qPc,            \* query call: "idle" before the call, "done" or "panic"
                    \* after
    qCall,          \* query call: the operation and its arguments
    qRet,           \* query call: what it built or returned
    hHeap,          \* deep copy: the maps and slices in memory, by address
    hOld,           \* deep copy: the address of oldDoc
    hCopy,          \* deep copy: the address of newDoc (0 before the copy)
    hShot,          \* deep copy: the value of oldDoc when makeUpdateData
                    \* was called
    hTouched,       \* deep copy: the addresses the transform wrote to
    hSteps,         \* deep copy: the number of writes of the transform
    hPc,            \* deep copy: "call", "fn" (in the transform), "done",
                    \* "panic"
    wCalls,         \* write path: the number of calls made so far
    wLast           \* write path: the last call, its arguments and outcome

collVars == <<coll, pc, call, groups, gi, batchResults, errs, ret, log>>
deltaVars == <<dOld, dFn, dRet, dPc>>

queryVars == <<qPc, qCall, qRet>>
copyVars == <<hHeap, hOld, hCopy, hShot, hTouched, hSteps, hPc>>
writeVars == <<wCalls, wLast>>

vars == <<coll, pc, call, groups, gi, batchResults, errs, ret, log,
          dOld, dFn, dRet, dPc, qPc, qCall, qRet,
          hHeap, hOld, hCopy, hShot, hTouched, hSteps, hPc, wCalls, wLast>>

----------------------------------------------------------------------------
(* Field names, part_000:17-21.                                            *)
IdFieldName == "id"
UidFieldName == "uid"
CreatedAtFieldName == "createdAt"
UpdatedAtFieldName == "updatedAt"
DeletedAtFieldName == "deletedAt"

----------------------------------------------------------------------------
(* Dynamic values.                                                         *)
Nil == [k |-> "nil"]
IntV(n) == [k |-> "int", v |-> n]
StrV(s) == [k |-> "string", v |-> s]
TimeV(t) == [k |-> "time", v |-> t]
MapV(m) == [k |-> "map", m |-> m]
SliceV(s) == [k |-> "slice", s |-> s]
\* A string whose characters the model reads: chars is the sequence of its
\* characters.  StrV(s) is a string the code only passes along or compares;
\* the number s names it.
TextV(chars) == [k |-> "string", chars |-> chars]
\* A []string: the sequence of the character sequences of its elements.
StringsV(ss) == [k |-> "[]string", ss |-> ss]
\* The outcome of an evaluation that ends in a run-time panic.
Panic == [k |-> "panic"]

\* m[key] on a Go map: the zero value (nil) when the key is missing.
MapIndex(m, key) == IF key \in DOMAIN m THEN m[key] ELSE Nil

\* The Go comparison a == b of two interface values: equal when the dynamic
\* types and the values agree; a run-time panic when both hold the same
\* uncomparable dynamic type (map[string]any, []any).
GoEqual(a, b) ==
    IF a.k # b.k THEN "ne"
    ELSE IF a.k \in {"map", "slice", "[]string"} THEN "panic"
    ELSE IF a = b THEN "eq" ELSE "ne"

\* a (+) b: the entries of b over the entries of a (lo.Assign(a, b)).
Assign(a, b) ==
    [key \in DOMAIN a \cup DOMAIN b |-> IF key \in DOMAIN b THEN b[key] ELSE a[key]]

----------------------------------------------------------------------------
(* deepCopyMap on values, helpers.go:92-114.  A nil map value is not put   *)
(* in the copy (reflect.ValueOf(nil) is the zero Value, and SetMapIndex    *)
(* with a zero Value deletes the key); a nil slice element panics          *)
(* (reflect.Value.Set on a zero Value).  Aliasing is the subject of the    *)
(* heap model further down.                                                *)
RECURSIVE deepCopyMap(_)
deepCopyMap(src) ==
    IF src.k = "map" THEN
        LET kept == {key \in DOMAIN src.m : src.m[key].k # "nil"}
            dst == [key \in kept |-> deepCopyMap(src.m[key])]
        IN  IF \E key \in kept : dst[key] = Panic THEN Panic ELSE MapV(dst)
    ELSE IF src.k = "slice" THEN
        LET dst == [i \in 1..Len(src.s) |-> deepCopyMap(src.s[i])]
        IN  IF \E i \in 1..Len(src.s) : src.s[i].k = "nil" \/ dst[i] = Panic
            THEN Panic ELSE SliceV(dst)
    ELSE src

----------------------------------------------------------------------------
(* Transforms (the batchFn argument).  "nil" is a nil batchFn; the others  *)
(* mutate their argument and return it.                                    *)
FnNil == [kind |-> "nil"]
FnIdentity == [kind |-> "identity"]
FnSet(key, val) == [kind |-> "set", key |-> key, val |-> val]
FnDelete(key) == [kind |-> "delete", key |-> key]

ApplyFn(fn, doc) ==
    CASE fn.kind = "set" -> Assign(doc, (fn.key :> fn.val))
      [] fn.kind = "delete" -> [key \in DOMAIN doc \ {fn.key} |-> doc[key]]
      [] OTHER -> doc

\* makeUpdateData, part_000:179-205.  updateData is the set of
\* firestore.Update values appended (the order of the slice is the map
\* iteration order of oldDoc, which Go leaves unspecified); panicked tells
\* that the call ended in a run-time panic instead of returning.
Returned(updateData) == [panicked |-> FALSE, updateData |-> updateData]
Panicked == [panicked |-> TRUE, updateData |-> {}]

makeUpdateData(oldDoc, batchFn) ==
    LET copied == deepCopyMap(MapV(oldDoc))
    IN  IF copied = Panic THEN Panicked
        ELSE
        LET afterDoc == IF batchFn.kind # "nil" THEN ApplyFn(batchFn, copied.m)
                        ELSE copied.m
            keys == DOMAIN oldDoc \ {IdFieldName}
            cmp == [key \in keys |-> GoEqual(MapIndex(afterDoc, key), oldDoc[key])]
        IN  IF \E key \in keys : cmp[key] = "panic" THEN Panicked
            ELSE Returned({[Path |-> key, Value |-> MapIndex(afterDoc, key)] :
                             key \in {x \in keys : cmp[x] = "ne"}})

----------------------------------------------------------------------------
(* Strings.                                                                *)

\* strings.ToLower on the characters the model uses.
ToLowerChar(c) ==
    CASE c = "A" -> "a" [] c = "C" -> "c" [] c = "D" -> "d"
      [] c = "E" -> "e" [] c = "S" -> "s" [] OTHER -> c

ToLowerChars(chars) == [i \in 1..Len(chars) |-> ToLowerChar(chars[i])]

\* strings.TrimSpace: without the leading and the trailing white space.
IsSpace(c) == c \in {" ", "\t"}

RECURSIVE TrimLeft(_)
TrimLeft(chars) ==
    IF chars # <<>> /\ IsSpace(Head(chars)) THEN TrimLeft(Tail(chars)) ELSE chars

RECURSIVE TrimRight(_)
TrimRight(chars) ==
    IF chars # <<>> /\ IsSpace(chars[Len(chars)])
    THEN TrimRight(SubSeq(chars, 1, Len(chars) - 1)) ELSE chars

TrimSpace(chars) == TrimRight(TrimLeft(chars))

\* strings.Split(chars, sep) for a separator of one character: the pieces
\* between the separators, one more than there are separators.
RECURSIVE Split(_, _)
Split(chars, sep) ==
    IF \A i \in 1..Len(chars) : chars[i] # sep THEN <<chars>>
    ELSE LET i == CHOOSE j \in 1..Len(chars) :
                      chars[j] = sep /\ \A h \in 1..(j - 1) : chars[h] # sep
         IN  <<SubSeq(chars, 1, i - 1)>> \o Split(SubSeq(chars, i + 1, Len(chars)), sep)

\* strings.ToLower on the keys of an options mapping: the keys the model
\* uses that have an upper-case letter, each with its lower-case form; every
\* other key of the model is lower-case already.
LowerKeys ==
    [orderBy |-> "orderby", ORDERBY |-> "orderby", Limit |-> "limit",
     OFFSET |-> "offset", startAt |-> "startat", startAfter |-> "startafter",
     endAt |-> "endat", endBefore |-> "endbefore", Name |-> "name"]

ToLower(key) == IF key \in DOMAIN LowerKeys THEN LowerKeys[key] ELSE key

----------------------------------------------------------------------------
(* parseOrderBy, helpers.go:68-90.                                         *)
Asc == "asc"
Desc == "desc"
NoOrderBy == [nil |-> TRUE]
OrderByOf(f, d) == [nil |-> FALSE, Field |-> f, Direction |-> d]

\* The switch on the direction, helpers.go:82-89.
DirectionOf(dir) ==
    CASE dir = <<"a", "s", "c">> -> Asc
      [] dir = <<"d", "e", "s", "c">> -> Desc
      [] OTHER -> Asc

\* AppendDefault with the direction "desc" for a string without direction.
AppendDefault_Desc(orderBySlice) ==
    IF Len(orderBySlice) = 1 THEN Append(orderBySlice, <<"d", "e", "s", "c">>)
    ELSE orderBySlice

\* The direction "asc" for a string without ":", helpers.go:78-80.
AppendDefault(orderBySlice) ==
    IF Len(orderBySlice) = 1 THEN Append(orderBySlice, <<"a", "s", "c">>)
    ELSE orderBySlice

\* The OrderBy of the pieces, helpers.go:81-89.
OrderByOfSlice(orderBySlice) ==
    OrderByOf(TrimSpace(orderBySlice[1]),
              DirectionOf(TrimSpace(ToLowerChars(orderBySlice[2]))))

parseOrderBy(orderBy) ==
    IF orderBy = <<>> THEN NoOrderBy
    ELSE OrderByOfSlice(AppendDefault(Split(orderBy, ":")))

----------------------------------------------------------------------------
(* firestore.Query as MakeQuery builds it: the filters and the order-by    *)
(* entries in the order of the calls, the last limit, offset and cursors   *)
(* (a sequence of length 0 when not set, of length 1 when set).  panicked  *)
(* tells that building the query ended in a run-time panic.                *)
EmptyQuery ==
    [filters |-> <<>>, orders |-> <<>>, limit |-> <<>>, offset |-> <<>>,
     start |-> <<>>, end |-> <<>>, panicked |-> FALSE]

QueryPanic(q) == [q EXCEPT !.panicked = TRUE]

\* Where that puts the filter in front of the filters of the query.
Where_InFront(q, path, op, val) ==
    [q EXCEPT !.filters = <<[path |-> path, op |-> op, val |-> val]>> \o @]

Where(q, path, op, val) ==
    [q EXCEPT !.filters = Append(@, [path |-> path, op |-> op, val |-> val])]
OrderBy(q, field, dir) ==
    [q EXCEPT !.orders = Append(@, [Field |-> field, Direction |-> dir])]
Limit(q, n) == [q EXCEPT !.limit = <<n>>]
Offset(q, n) == [q EXCEPT !.offset = <<n>>]
StartAt(q, val) == [q EXCEPT !.start = <<[val |-> val, before |-> TRUE]>>]
StartAfter(q, val) == [q EXCEPT !.start = <<[val |-> val, before |-> FALSE]>>]
EndAt(q, val) == [q EXCEPT !.end = <<[val |-> val, before |-> FALSE]>>]
EndBefore(q, val) == [q EXCEPT !.end = <<[val |-> val, before |-> TRUE]>>]

\* Condition clauses: a tuple []any{path, op, val}, a mapping
\* map[string]any, or a value of another kind.
TupleC(path, op, val) == [k |-> "slice", path |-> path, op |-> op, val |-> val]
MapC(m) == [k |-> "map", m |-> m]
OtherC == [k |-> "string"]

\* The orders in which a range loop can visit the keys of a map.
KeyOrders(m) ==
    {o \in [1..Cardinality(DOMAIN m) -> DOMAIN m] :
        \A i, j \in DOMAIN o : i # j => o[i] # o[j]}

\* The order-by entry of a parsed string, part_000:359-361 and 366-368.
AddOrderBy(q, orderBy) ==
    IF ~orderBy.nil /\ Len(orderBy.Field) > 0
    THEN OrderBy(q, orderBy.Field, orderBy.Direction)
    ELSE q

\* The orderBy entries of a []string, part_000:364-369.
RECURSIVE OrderByLoop(_, _, _)
OrderByLoop(q, obSlide, i) ==
    IF i > Len(obSlide) THEN q
    ELSE OrderByLoop(AddOrderBy(q, parseOrderBy(obSlide[i])), obSlide, i + 1)

\* The orderBy entry of the final mapping, part_000:354-371.
ApplyOrderBy(q, val) ==
    \* reflect.TypeOf(nil) is nil, and its Kind() a nil dereference
    CASE val.k = "nil" -> QueryPanic(q)
      [] val.k = "string" -> AddOrderBy(q, parseOrderBy(val.chars))
      [] val.k = "[]string" -> OrderByLoop(q, val.ss, 1)
      \* val.([]string) on a slice of another type
      [] val.k = "slice" -> QueryPanic(q)
      [] OTHER -> q

\* One entry of the final mapping, part_000:353-384.
ApplyOption(q, key, val) ==
    LET lower == ToLower(key)
    IN  CASE lower = "orderby" -> ApplyOrderBy(q, val)
          [] lower = "limit" ->
                IF val.k = "int" THEN Limit(q, val.v) ELSE QueryPanic(q)
          [] lower = "offset" ->
                IF val.k = "int" THEN Offset(q, val.v) ELSE QueryPanic(q)
          [] lower = "startat" -> StartAt(q, val)
          [] lower = "startafter" -> StartAfter(q, val)
          [] lower = "endat" -> EndAt(q, val)
          [] lower = "endbefore" -> EndBefore(q, val)
          [] OTHER -> q

\* MapLoop without the test for the last clause: every mapping is read as
\* options.
RECURSIVE MapLoop_NoLastTest(_, _, _, _, _)
MapLoop_NoLastTest(q, m, keys, i, isLast) ==
    IF i > Len(keys) \/ q.panicked THEN q
    ELSE MapLoop_NoLastTest(ApplyOption(q, keys[i], m[keys[i]]),
                            m, keys, i + 1, isLast)

\* The range loop over a mapping clause in the key order keys,
\* part_000:346-386.
RECURSIVE MapLoop(_, _, _, _, _)
MapLoop(q, m, keys, i, isLast) ==
    IF i > Len(keys) \/ q.panicked THEN q
    ELSE MapLoop(IF isLast THEN ApplyOption(q, keys[i], m[keys[i]])
                 ELSE Where(q, keys[i], "==", m[keys[i]]),
                 m, keys, i + 1, isLast)

\* The loop over the clauses from clause idx on, part_000:324-390.  iter[idx]
\* is the key order of the range loop over clause idx when it is a mapping.
RECURSIVE ClauseLoop(_, _, _, _)
ClauseLoop(q, condition, iter, idx) ==
    IF idx > Len(condition) \/ q.panicked THEN q
    ELSE LET where == condition[idx]
             next == CASE where.k = "slice" ->
                            Where(q, where.path, where.op, where.val)
                       [] where.k = "map" ->
                            MapLoop(q, where.m, iter[idx], 1, idx = Len(condition))
                       [] OTHER -> QueryPanic(q)
         IN  ClauseLoop(next, condition, iter, idx + 1)

\* MakeQuery, part_000:317-395.
MakeQuery(condition, iter) == ClauseLoop(EmptyQuery, condition, iter, 1)

\* The key orders MakeQuery can take over the clauses of a condition.
Iters(condition) ==
    {it \in [1..Len(condition) ->
                UNION {IF condition[i].k = "map" THEN KeyOrders(condition[i].m)
                       ELSE {<<>>} : i \in 1..Len(condition)}] :
        \A i \in 1..Len(condition) :
            it[i] \in (IF condition[i].k = "map" THEN KeyOrders(condition[i].m)
                       ELSE {<<>>})}

----------------------------------------------------------------------------
(* Errors.                                                                 *)
NoErr == [e |-> "nil"]
ErrorsNew(msg) == [e |-> "new", msg |-> msg]
\* An error of the firestore client (a gRPC status).
StatusErr(code) == [e |-> "status", code |-> code]
\* errors.Join: nil when there is no error to join.
Join(es) == IF es = <<>> THEN NoErr ELSE [e |-> "join", errs |-> es]
\* lo.Last on an empty slice.
ErrLastEmpty == ErrorsNew("last: cannot extract the last element of an empty slice")

----------------------------------------------------------------------------
(* The collection and the evaluation of a query by the server.  A          *)
(* collection is a sequence: its indices are the document ids, in the      *)
(* order of the document names, and element i is the data of document i or *)
(* Absent when there is no such document.  The server evaluates the ==     *)
(* and < filters, then the offset and the limit, over the documents in     *)
(* name order; the order-by entries and the cursors of a query are carried *)
(* to the server and not interpreted here.                                 *)
Absent == [absent |-> TRUE]

FilterHolds(f, data) ==
    /\ f.path \in DOMAIN data
    /\ CASE f.op = "==" -> data[f.path] = f.val
         [] f.op = "<" -> /\ data[f.path].k = "int" /\ f.val.k = "int"
                          /\ data[f.path].v < f.val.v
         [] OTHER -> FALSE

Matches(q, data) == \A i \in 1..Len(q.filters) : FilterHolds(q.filters[i], data)

IdsInOrder(c) == SelectSeq([i \in 1..Len(c) |-> i], LAMBDA i : c[i] # Absent)

Skip(s, n) == IF n >= Len(s) THEN <<>> ELSE SubSeq(s, n + 1, Len(s))
Take(s, n) == IF n >= Len(s) THEN s ELSE SubSeq(s, 1, n)

\* The ids of the documents a query returns, in order.
RunQuery(q, c) ==
    LET matched == SelectSeq(IdsInOrder(c), LAMBDA i : Matches(q, c[i]))
        skipped == IF q.offset = <<>> THEN matched ELSE Skip(matched, q.offset[1])
    IN  IF q.limit = <<>> THEN skipped ELSE Take(skipped, q.limit[1])

\* makeDocResponse, helpers.go:23-31.
makeDocResponse(id, data) == Assign(data, [_id |-> StrV(id), _ref |-> StrV(id)])

\* docSnapsDataToMap, helpers.go:15-21.
docSnapsDataToMap(ids, c) == [j \in 1..Len(ids) |-> makeDocResponse(ids[j], c[ids[j]])]

\* ListDocs, part_000:98-108.  ioErr is the error of the server for this
\* query (NoErr when it answers).
GetAll(query, c, ioErr) ==
    IF query.panicked THEN [panicked |-> TRUE, err |-> NoErr, docs |-> <<>>, query |-> query]
    ELSE IF ioErr # NoErr
    THEN [panicked |-> FALSE, err |-> ioErr, docs |-> <<>>, query |-> query]
    ELSE [panicked |-> FALSE, err |-> NoErr,
          docs |-> docSnapsDataToMap(RunQuery(query, c), c), query |-> query]

ListDocs(condition, iter, c, ioErr) == GetAll(MakeQuery(condition, iter), c, ioErr)

----------------------------------------------------------------------------
(* CountDocs, Paginate, PaginateWithCount.                                 *)
DefaultPaginatePerPage == 25

\* The condition CountDocs compiles, part_000:399-408.
CountCondition(condition) ==
    IF condition[Len(condition)].k = "map"
    THEN SubSeq(condition, 1, Len(condition) - 1) ELSE condition

\* CountDocs, part_000:397-424.  iter is the key order of MakeQuery over
\* CountCondition(condition).
\* The aggregation query and its answer, part_000:411-423.
CountAll(query, c, ioErr) ==
    IF query.panicked THEN [panicked |-> TRUE, err |-> NoErr, count |-> 0]
    ELSE IF ioErr # NoErr THEN [panicked |-> FALSE, err |-> ioErr, count |-> 0]
    ELSE [panicked |-> FALSE, err |-> NoErr, count |-> Len(RunQuery(query, c))]

CountDocs(condition, iter, c, ioErr) ==
    IF condition = <<>> THEN [panicked |-> FALSE, err |-> ErrLastEmpty, count |-> 0]
    ELSE CountAll(MakeQuery(CountCondition(condition), iter), c, ioErr)

\* The page and perPage Paginate works with, part_000:435-440.
PageOf(page) == IF page = 0 THEN 1 ELSE page
PerPageOf(perPage) == IF perPage = 0 THEN DefaultPaginatePerPage ELSE perPage

PageOptions(page, perPage) ==
    [limit |-> IntV(perPage), offset |-> IntV((page - 1) * perPage)]

\* The condition Paginate lists, part_000:441-458 (condition is not empty;
\* page and perPage are those of PageOf and PerPageOf).
PaginateCondition(condition, page, perPage) ==
    LET lastCond == condition[Len(condition)]
    IN  CASE lastCond.k = "slice" ->
                Append(condition, MapC(PageOptions(page, perPage)))
          [] lastCond.k = "map" ->
                [condition EXCEPT ![Len(condition)] =
                    MapC(Assign(lastCond.m, PageOptions(page, perPage)))]
          [] OTHER -> condition

\* The condition slice of the caller after Paginate returned: append leaves
\* the elements the caller's slice holds as they are, the assignment to the
\* last element is to the array the caller's slice shares.
ConditionAfterPaginate(condition, page, perPage) ==
    IF condition[Len(condition)].k = "map"
    THEN PaginateCondition(condition, page, perPage) ELSE condition

\* What Paginate returns for the answer listed of ListDocs,
\* part_000:460-471.
PaginateResult(listed, page, perPage) ==
    IF listed.panicked \/ listed.err # NoErr
    THEN [panicked |-> listed.panicked, err |-> listed.err, val |-> <<>>,
          query |-> listed.query]
    ELSE [panicked |-> FALSE, err |-> NoErr,
          val |-> [docs |-> listed.docs, page |-> page, perPage |-> perPage],
          query |-> listed.query]

\* Paginate, part_000:434-472.  iter is the key order of MakeQuery over
\* PaginateCondition.  query is the query ListDocs ran.
Paginate(condition, page0, perPage0, iter, c, ioErr) ==
    IF condition = <<>>     \* condition[len(condition)-1] is out of range
    THEN [panicked |-> TRUE, err |-> NoErr, val |-> <<>>, query |-> EmptyQuery]
    ELSE PaginateResult(
            ListDocs(PaginateCondition(condition, PageOf(page0), PerPageOf(perPage0)),
                     iter, c, ioErr),
            PageOf(page0), PerPageOf(perPage0))

\* totalPage, part_000:490-495.
TotalPage(count, perPage) ==
    IF count % perPage = 0 THEN count \div perPage ELSE count \div perPage + 1

\* What PaginateWithCount returns for the answer paged of Paginate and
\* the answer counted of CountDocs, part_000:481-499.
WithCount(paged, counted, perPage) ==
    IF paged.panicked \/ paged.err # NoErr THEN paged
    ELSE IF counted.panicked \/ counted.err # NoErr
    THEN [panicked |-> counted.panicked, err |-> counted.err, val |-> <<>>,
          query |-> paged.query]
    ELSE [panicked |-> FALSE, err |-> NoErr,
          val |-> Assign(paged.val,
                         [count |-> counted.count,
                          totalPage |-> TotalPage(counted.count, perPage)]),
          query |-> paged.query]

\* PaginateWithCount, part_000:474-500.  iter and ioErr are those of
\* Paginate, countIter and countErr those of CountDocs.
PaginateWithCount(condition, page0, perPage0, iter, countIter, c, ioErr, countErr) ==
    WithCount(Paginate(condition, PageOf(page0), PerPageOf(perPage0), iter, c, ioErr),
              CountDocs(ConditionAfterPaginate(condition, PageOf(page0),
                                               PerPageOf(perPage0)),
                        countIter, c, countErr),
              PerPageOf(perPage0))

----------------------------------------------------------------------------
(* The diff/batch updater.                                                 *)
ChunkSize == 500

Min(a, b) == IF a < b THEN a ELSE b

\* Chunk with groups of size + 1 elements.
Chunk_OneMore(s, size) ==
    [g \in 1..((Len(s) + size) \div (size + 1)) |->
        SubSeq(s, (g - 1) * (size + 1) + 1, Min(g * (size + 1), Len(s)))]

\* lo.Chunk(s, size): the consecutive groups of size elements of s, the last
\* one with the elements that remain.
Chunk(s, size) ==
    [g \in 1..((Len(s) + size - 1) \div size) |->
        SubSeq(s, (g - 1) * size + 1, Min(g * size, Len(s)))]

\* time.Now() during a call; the timestamps of the documents of the initial
\* collection are earlier.
Now == TimeV(1)

ErrNoDocsToBatch == ErrorsNew("no docs to batch")
ErrNotFound == ErrorsNew("not found")

\* The error of the bulk writer for one write: at batch.Update / batch.Delete
\* ("submit") or at job.Results() ("result").
WriteErr(ref, at) == [e |-> "write", ref |-> ref, at |-> at]
WriteResult(ref) == [ref |-> ref, UpdateTime |-> Now]

\* The map of the fields a set of firestore.Update values sets.
UpdateFields(updateData) ==
    [path \in {u.Path : u \in updateData} |->
        (CHOOSE u \in updateData : u.Path = path).Value]

\* The jobs of one bulk writer, part_000:243-251 and 304-312: writes is the
\* sequence of the writes handed to batch.Update or batch.Delete, submitFail
\* the refs whose call returns an error, resultFail the refs whose
\* job.Results() returns an error.
RunJobs(writes, submitFail, resultFail) ==
    LET jobs == SelectSeq(writes, LAMBDA w : w.ref \notin submitFail)
        refused == SelectSeq(writes, LAMBDA w : w.ref \in submitFail)
        done == SelectSeq(jobs, LAMBDA w : w.ref \notin resultFail)
        failed == SelectSeq(jobs, LAMBDA w : w.ref \in resultFail)
    IN  [results |-> [i \in 1..Len(done) |-> WriteResult(done[i].ref)],
         err |-> Join([i \in 1..Len(refused) |-> WriteErr(refused[i].ref, "submit")]
                      \o [i \in 1..Len(failed) |-> WriteErr(failed[i].ref, "result")]),
         writes |-> writes,
         done |-> done]

NoJobs(err) == [results |-> <<>>, err |-> err, writes |-> <<>>, done |-> <<>>]

\* batchEach500Docs, part_000:206-254.  panicked: a document without a
\* string id, or a panic of makeUpdateData.
batchEach500Docs(docs0, batchFn, submitFail, resultFail) ==
    IF Len(docs0) = 0 THEN [panicked |-> FALSE] @@ NoJobs(ErrNoDocsToBatch)
    ELSE
    LET docs == Chunk(docs0, ChunkSize)[1]
        prepared == SelectSeq([j \in 1..Len(docs) |->
                                  [id |-> MapIndex(docs[j], IdFieldName),
                                   made |-> makeUpdateData(docs[j], batchFn)]],
                              LAMBDA p : TRUE)
        panics == SelectSeq(prepared,
                            LAMBDA p : p.id.k # "string" \/ p.made.panicked)
        changed == SelectSeq(prepared, LAMBDA p : p.made.updateData # {})
        writes == [w \in 1..Len(changed) |->
                      [ref |-> changed[w].id.v,
                       op |-> "update",
                       updateData |-> changed[w].made.updateData
                            \cup {[Path |-> UpdatedAtFieldName, Value |-> Now]}]]
    IN  IF panics # <<>>
        THEN [panicked |-> TRUE] @@ NoJobs(NoErr)
        ELSE [panicked |-> FALSE] @@ RunJobs(writes, submitFail, resultFail)

\* The collection after the server applied one write.
ApplyWrite(c, w) ==
    [c EXCEPT ![w.ref] = IF w.op = "delete" THEN Absent
                         ELSE Assign(@, UpdateFields(w.updateData))]

\* The collection after the writes lo..hi of done were applied, in order.
\* The range is halved, and the first half is evaluated (its length is
\* read) before the second half is entered, to keep the evaluation shallow.
RECURSIVE ApplyWritesRange(_, _, _, _)
ApplyWritesRange(c, done, lo, hi) ==
    IF lo > hi THEN c
    ELSE IF lo = hi THEN ApplyWrite(c, done[lo])
    ELSE LET mid == (lo + hi) \div 2
             half == ApplyWritesRange(c, done, lo, mid)
         IN  IF Len(half) = Len(c) THEN ApplyWritesRange(half, done, mid + 1, hi)
             ELSE half

ApplyWrites(c, done) == ApplyWritesRange(c, done, 1, Len(done))

\* The writes of DeleteDocs, part_000:280-302.
DeleteWrites(docs, softDelete) ==
    [j \in 1..Len(docs) |->
        IF softDelete
        THEN [ref |-> docs[j][IdFieldName].v, op |-> "update",
              updateData |-> {[Path |-> DeletedAtFieldName, Value |-> Now],
                              [Path |-> UpdatedAtFieldName, Value |-> Now]}]
        ELSE [ref |-> docs[j][IdFieldName].v, op |-> "delete", updateData |-> {}]]

----------------------------------------------------------------------------
(* Specification Spec: one call of BatchDocs or DeleteDocs on a            *)
(* collection.                                                             *)

\* Bounds: the largest collection, and the size up to which every
\* collection and every combination of failing writes is taken.
MaxDocs == 1200
SmallDocs == 3

Sizes == (0..SmallDocs) \cup {ChunkSize, ChunkSize + 1, 2 * ChunkSize, MaxDocs}

\* Document i as the write path stores it (AddDocWithId, part_000:75-96).
InitData(i) ==
    [id |-> StrV(i), x |-> IntV(i % 2), createdAt |-> TimeV(0),
     updatedAt |-> TimeV(0), deletedAt |-> Nil]

InitColl(n) == [i \in 1..n |-> InitData(i)]

NoCall == [op |-> "none"]
NoRet == [results |-> <<>>, err |-> NoErr]

\* The variables of the parts a specification does not use.
CollIdle ==
    /\ coll = <<>> /\ pc = "idle" /\ call = NoCall /\ groups = <<>> /\ gi = 0
    /\ batchResults = <<>> /\ errs = <<>> /\ ret = NoRet /\ log = <<>>

DeltaIdle == dOld = <<>> /\ dFn = FnNil /\ dRet = {} /\ dPc = "idle"

QueryIdle == qPc = "idle" /\ qCall = NoCall /\ qRet = NoCall

WriteIdle == wCalls = 0 /\ wLast = NoCall

CopyIdle ==
    /\ hHeap = <<>> /\ hOld = 0 /\ hCopy = 0 /\ hShot = Nil /\ hTouched = {}
    /\ hSteps = 0 /\ hPc = "idle"

BatchConditions ==
    {<<>>,
     <<TupleC("x", "==", IntV(0))>>,
     <<TupleC("x", "==", IntV(7))>>,
     <<TupleC("x", "==", IntV(1)), MapC([limit |-> IntV(2)])>>}

BatchFns ==
    {FnNil, FnIdentity, FnSet("x", IntV(1)), FnSet("x", IntV(5)),
     FnSet("y", IntV(1)), FnDelete("x")}

\* The errors the server can answer a query with.
IOErrs == {NoErr, StatusErr("Unavailable")}

\* The failing writes of one bulk writer over the documents docs: the refs
\* whose submission fails and the refs whose result is an error.
FailChoices(docs) ==
    LET refs == {docs[j][IdFieldName].v : j \in 1..Len(docs)}
        first == {docs[1][IdFieldName].v}
        last == {docs[Len(docs)][IdFieldName].v}
    IN  IF Len(docs) <= SmallDocs THEN (SUBSET refs) \X (SUBSET refs)
        ELSE {<<{}, {}>>, <<refs, {}>>, <<first, last>>}

Init ==
    /\ coll \in {InitColl(n) : n \in Sizes}
    /\ pc = "idle" /\ call = NoCall /\ groups = <<>> /\ gi = 0
    /\ batchResults = <<>> /\ errs = <<>> /\ ret = NoRet /\ log = <<>>
    /\ DeltaIdle /\ QueryIdle /\ CopyIdle /\ WriteIdle

\* BatchDocsHead without the test for an empty answer: the loop runs over no
\* group and the call returns no outcome and no error.
BatchDocsHead_NoEmptyTest(listed) ==
    IF listed.panicked
    THEN [pc |-> "panic", ret |-> NoRet, groups |-> <<>>]
    ELSE IF listed.err # NoErr
    THEN [pc |-> "done", ret |-> [results |-> <<>>, err |-> listed.err],
          groups |-> <<>>]
    ELSE IF Len(listed.docs) = 0
    THEN [pc |-> "done", ret |-> [results |-> <<>>, err |-> Join(<<>>)],
          groups |-> <<>>]
    ELSE [pc |-> "batch", ret |-> NoRet, groups |-> Chunk(listed.docs, ChunkSize)]

\* BatchDocs up to the group loop, part_000:156-167, for the answer listed
\* of ListDocs: where the call goes on, what it returns when it returns
\* here, and the groups of the loop.
BatchDocsHead(listed) ==
    IF listed.panicked
    THEN [pc |-> "panic", ret |-> NoRet, groups |-> <<>>]
    ELSE IF listed.err # NoErr
    THEN [pc |-> "done", ret |-> [results |-> <<>>, err |-> listed.err],
          groups |-> <<>>]
    ELSE IF Len(listed.docs) = 0
    THEN [pc |-> "done", ret |-> [results |-> <<>>, err |-> ErrNoDocsToBatch],
          groups |-> <<>>]
    ELSE [pc |-> "batch", ret |-> NoRet, groups |-> Chunk(listed.docs, ChunkSize)]

\* GroupResults that gives up the outcomes of the earlier groups when a
\* group fails.
GroupResults_Reset(results, r) ==
    IF r.err # NoErr THEN <<>> ELSE results \o r.results

\* batchResults and errs after one turn of the group loop, part_000:169-174,
\* for the answer r of batchEach500Docs.
GroupResults(results, r) ==
    IF r.err # NoErr THEN results ELSE results \o r.results

GroupErrs(es, r) == IF r.err # NoErr THEN Append(es, r.err) ELSE es

BatchDocsCall ==
    /\ pc = "idle"
    /\ \E condition \in BatchConditions, ioErr \in IOErrs :
       \E iter \in Iters(condition) :
       \E listed \in {ListDocs(condition, iter, coll, ioErr)} :
       \E head \in {BatchDocsHead(listed)} :
       \E batchFn \in BatchFns :
             /\ call' = [op |-> "BatchDocs", condition |-> condition,
                         batchFn |-> batchFn, ioErr |-> ioErr,
                         docs |-> listed.docs]
             /\ pc' = head.pc
             /\ ret' = head.ret
             /\ groups' = head.groups
             /\ gi' = IF head.pc = "batch" THEN 1 ELSE 0
    /\ UNCHANGED <<coll, batchResults, errs, log>>
    /\ UNCHANGED <<deltaVars, queryVars, copyVars, writeVars>>

\* One turn of the group loop, part_000:168-175, and the return after the
\* last turn, part_000:177.
BatchDocsGroup ==
    /\ pc = "batch"
    /\ \E fail \in FailChoices(groups[gi]) :
       \E r \in {batchEach500Docs(groups[gi], call.batchFn, fail[1], fail[2])} :
       \E results2 \in {GroupResults(batchResults, r)} :
       \E errs2 \in {GroupErrs(errs, r)} :
             IF r.panicked
             THEN /\ pc' = "panic"
                  /\ UNCHANGED <<coll, batchResults, errs, ret, log, gi>>
             ELSE /\ coll' = ApplyWrites(coll, r.done)
                  /\ log' = Append(log, [writes |-> r.writes, done |-> r.done,
                                         err |-> r.err])
                  /\ batchResults' = results2
                  /\ errs' = errs2
                  /\ gi' = gi + 1
                  /\ IF gi = Len(groups)
                     THEN /\ pc' = "done"
                          /\ ret' = [results |-> results2, err |-> Join(errs2)]
                     ELSE UNCHANGED <<pc, ret>>
    /\ UNCHANGED <<call, groups>>
    /\ UNCHANGED <<deltaVars, queryVars, copyVars, writeVars>>

\* DeleteDocs, part_000:265-315.
DeleteDocs ==
    /\ pc = "idle"
    /\ \E condition \in BatchConditions, ioErr \in IOErrs :
       \E iter \in Iters(condition) :
       \E listed \in {ListDocs(condition, iter, coll, ioErr)} :
       \E softDelete \in BOOLEAN :
             /\ call' = [op |-> "DeleteDocs", condition |-> condition,
                         softDelete |-> softDelete, ioErr |-> ioErr,
                         docs |-> listed.docs]
             /\ IF listed.panicked
                THEN pc' = "panic" /\ UNCHANGED <<coll, ret, log>>
                ELSE IF listed.err # NoErr
                THEN /\ pc' = "done" /\ UNCHANGED <<coll, log>>
                     /\ ret' = [results |-> <<>>, err |-> listed.err]
                ELSE IF Len(listed.docs) = 0
                THEN /\ pc' = "done" /\ UNCHANGED <<coll, log>>
                     /\ ret' = [results |-> <<>>, err |-> ErrNotFound]
                ELSE \E fail \in FailChoices(listed.docs) :
                     \E r \in {RunJobs(DeleteWrites(listed.docs, softDelete),
                                       fail[1], fail[2])} :
                           /\ pc' = "done"
                           /\ coll' = ApplyWrites(coll, r.done)
                           /\ log' = Append(log, [writes |-> r.writes,
                                                  done |-> r.done, err |-> r.err])
                           /\ ret' = [results |-> r.results, err |-> r.err]
    /\ UNCHANGED <<groups, gi, batchResults, errs>>
    /\ UNCHANGED <<deltaVars, queryVars, copyVars, writeVars>>

Next == BatchDocsCall \/ BatchDocsGroup \/ DeleteDocs

Spec == Init /\ [][Next]_vars

----------------------------------------------------------------------------
(* Properties of BatchDocs and DeleteDocs (specification Spec).            *)

\* BatchDocs or DeleteDocs returned, the query having been answered.
Returned_(op) == pc = "done" /\ call.op = op /\ call.ioErr = NoErr

RefsOf(ws) == {ws[i].ref : i \in 1..Len(ws)}

\* The refs of the writes handed to a bulk writer, of those that succeeded,
\* and the errors of those that did not.
SubmittedRefs == UNION {RefsOf(log[g].writes) : g \in 1..Len(log)}
SucceededRefs == UNION {RefsOf(log[g].done) : g \in 1..Len(log)}

RECURSIVE LeafErrs(_)
LeafErrs(err) ==
    IF err.e = "nil" THEN {}
    ELSE IF err.e = "join" THEN UNION {LeafErrs(err.errs[i]) : i \in 1..Len(err.errs)}
    ELSE {err}

FailedErrs == UNION {LeafErrs(log[g].err) : g \in 1..Len(log)}

\* C2: for every BatchDocs call over a non-empty document set, the returned
\* outcomes hold one outcome for every submitted write that succeeded, also
\* for those in a group with a failed write, and the returned joined error
\* holds the errors of the failed writes.
C2_PartialOutcomesReturned ==
    (Returned_("BatchDocs") /\ Len(call.docs) > 0) =>
        /\ RefsOf(ret.results) = SucceededRefs
        /\ Len(ret.results) = Cardinality(SucceededRefs)
        /\ LeafErrs(ret.err) = FailedErrs

\* A group failed entirely: writes were submitted and none succeeded.
FailedEntirely(g) == log[g].writes # <<>> /\ log[g].done = <<>>

\* The outcomes of the groups of gs, in the order of the groups.
RECURSIVE OutcomesOf(_, _)
OutcomesOf(g, skip) ==
    IF g > Len(log) THEN <<>>
    ELSE (IF g = skip THEN <<>>
          ELSE [i \in 1..Len(log[g].done) |-> WriteResult(log[g].done[i].ref)])
         \o OutcomesOf(g + 1, skip)

\* The ids of the documents of group g.
GroupRefs(g) == {groups[g][j][IdFieldName].v : j \in 1..Len(groups[g])}

\* C3: the groups are processed one after the other in input order (while
\* the loop is at group gi, exactly the groups before gi have been handed to
\* a bulk writer and have their results, each with writes of its own
\* documents only), and when BatchDocs processed several groups of which
\* one failed entirely and the others had no failure, every group was
\* processed, the outcomes of all the other groups are returned in order,
\* and the joined error holds the error of the failing group only.
C3_FailingGroupDoesNotStopTheOthers ==
    (call.op = "BatchDocs" /\ pc \in {"batch", "done"} /\ groups # <<>>) =>
        /\ Len(log) = gi - 1
        /\ \A g \in 1..Len(log) : RefsOf(log[g].writes) \subseteq GroupRefs(g)
        /\ pc = "done" =>
            /\ Len(log) = Len(groups)
            /\ \A g \in 1..Len(groups) :
                (/\ Len(groups) >= 2
                 /\ FailedEntirely(g)
                 /\ \A h \in 1..Len(groups) \ {g} : log[h].err = NoErr)
                => /\ ret.results = OutcomesOf(1, g)
                   /\ ret.err = Join(<<log[g].err>>)
                   /\ LeafErrs(ret.err) = LeafErrs(log[g].err)

C3_Witness ==
    /\ Returned_("BatchDocs")
    /\ Len(groups) = 3
    /\ FailedEntirely(2)
    /\ log[1].err = NoErr /\ log[3].err = NoErr
    /\ Len(log[1].done) = ChunkSize
    /\ Len(ret.results) = Len(call.docs) - ChunkSize
    /\ ret.err # NoErr

\* The transform changes no field of the document.
ChangesNothing(fn, doc) == ApplyFn(fn, doc) = doc

\* C4: BatchDocs over N matching documents partitions them, in input order,
\* into ceil(N/500) groups of exactly 500 documents except possibly the last
\* (1200 documents: 500, 500, 200; never more than 500), and when the
\* transform changes no field of any document, no write is handed to the
\* bulk writer and no outcome is returned.
C4_GroupsOf500AndNoWriteWithoutChange ==
    (call.op = "BatchDocs" /\ pc \in {"batch", "done"} /\ Len(call.docs) > 0
        /\ call.ioErr = NoErr) =>
        LET N == Len(call.docs)
            count == IF N % 500 = 0 THEN N \div 500 ELSE N \div 500 + 1
        IN  /\ Len(groups) = count
            /\ \A g \in 1..(count - 1) : Len(groups[g]) = 500
            /\ Len(groups[count]) >= 1 /\ Len(groups[count]) <= 500
            /\ \A g \in 1..count : \A j \in 1..Len(groups[g]) :
                    groups[g][j] = call.docs[(g - 1) * 500 + j]
            /\ N = 1200 => [g \in 1..count |-> Len(groups[g])] = <<500, 500, 200>>
            /\ (pc = "done" /\ \A j \in 1..N : ChangesNothing(call.batchFn, call.docs[j]))
                => /\ SubmittedRefs = {}
                   /\ \A g \in 1..Len(log) : log[g].writes = <<>>
                   /\ ret.results = <<>>

C4_Witness ==
    /\ Returned_("BatchDocs")
    /\ Len(call.docs) > 2 * ChunkSize
    /\ Len(groups) = 3 /\ Len(groups[3]) < ChunkSize
    /\ call.batchFn = FnIdentity
    /\ Len(log) = 3
    /\ ret.results = <<>>

\* C9: when the condition matches no document, BatchDocs and DeleteDocs
\* return the error "no docs to batch" / "not found" with no outcome, hand no
\* write to a bulk writer and leave the collection as it was; the error the
\* query failed with is returned as it is, and is another error.
C9_NothingToOperateOn ==
    (pc = "done" /\ call.op \in {"BatchDocs", "DeleteDocs"}) =>
        /\ (call.ioErr = NoErr /\ call.docs = <<>>) =>
              /\ ret.err = (IF call.op = "BatchDocs" THEN ErrorsNew("no docs to batch")
                            ELSE ErrorsNew("not found"))
              /\ ret.results = <<>>
              /\ log = <<>>
              /\ coll = InitColl(Len(coll))
        /\ call.ioErr # NoErr =>
              /\ ret.err = call.ioErr
              /\ ret.err \notin {ErrorsNew("no docs to batch"), ErrorsNew("not found")}
              /\ ret.results = <<>> /\ log = <<>>
              /\ coll = InitColl(Len(coll))
        /\ (ret.err = NoErr) => call.docs # <<>>

C9_Witness ==
    /\ Returned_("BatchDocs")
    /\ Len(coll) > 0
    /\ call.docs = <<>>
    /\ ret = [results |-> <<>>, err |-> ErrorsNew("no docs to batch")]

----------------------------------------------------------------------------
(* Specification SpecDelta: one call of makeUpdateData on a bounded set of *)
(* documents and transforms.                                               *)
DeltaVals == {Nil, IntV(1), IntV(2), StrV(1),
              MapV([n |-> IntV(1)]), SliceV(<<IntV(1)>>), SliceV(<<Nil>>)}
DeltaKeys == {"a", "b"}
DeltaNewKey == "c"

\* Documents as ListDocs returns them: the id field is a string.
DeltaDocs ==
    {Assign([id |-> StrV(1)], m) :
        m \in UNION {[ks -> DeltaVals] : ks \in SUBSET DeltaKeys}}

DeltaFns ==
    {FnNil, FnIdentity}
    \cup {FnSet(key, val) : key \in DeltaKeys \cup {DeltaNewKey, IdFieldName},
                            val \in {Nil, IntV(1), IntV(2), StrV(2)}}
    \cup {FnDelete(key) : key \in DeltaKeys \cup {IdFieldName}}

InitDelta ==
    /\ CollIdle /\ QueryIdle /\ CopyIdle /\ WriteIdle
    /\ dOld \in DeltaDocs
    /\ dFn \in DeltaFns
    /\ dRet = {}
    /\ dPc = "call"

CallMakeUpdateData ==
    /\ dPc = "call"
    /\ LET r == makeUpdateData(dOld, dFn)
       IN  /\ dRet' = r.updateData
           /\ dPc' = IF r.panicked THEN "panic" ELSE "done"
    /\ UNCHANGED <<dOld, dFn>>
    /\ UNCHANGED <<collVars, queryVars, copyVars, writeVars>>

NextDelta == CallMakeUpdateData

SpecDelta == InitDelta /\ [][NextDelta]_vars

\* The difference of two documents as sets of fields: the fields, other than
\* the id field, that are in only one of the two or whose values are not the
\* same, each with its value in the second document (nil when it is not
\* there).
FieldDifference(before, after) ==
    {[Path |-> key, Value |-> MapIndex(after, key)] :
        key \in {x \in (DOMAIN before \cup DOMAIN after) \ {IdFieldName} :
                    \/ (x \in DOMAIN before) # (x \in DOMAIN after)
                    \/ MapIndex(before, x) # MapIndex(after, x)}}

\* C1: for every document and every transform, the update delta computed by
\* makeUpdateData is exactly the set of (field, new value) pairs of the
\* fields whose value differs between the original document and the
\* transformed copy (a field in only one of the two differs), without the id
\* field and without the unchanged fields.
C1_DeltaIsFieldDifference ==
    dPc \in {"done", "panic"} =>
        /\ dPc = "done"
        /\ dRet = FieldDifference(dOld, ApplyFn(dFn, dOld))

----------------------------------------------------------------------------
(* Specification SpecQuery: one call of MakeQuery, Paginate or             *)
(* PaginateWithCount on a collection.                                      *)

\* Bounds: the largest collection queried, the largest page asked for, the
\* longest []string of an orderBy option, and the most clauses before the
\* last clause of a condition handed to MakeQuery.
MaxQueryDocs == 60
MaxPage == 3
MaxStrings == 2
MaxPrefix == 2

QuerySizes == {0, MaxQueryDocs}

SeqsUpTo(S, n) == UNION {[1..m -> S] : m \in 0..n}

\* The orderBy strings: white space, a field name, white space, and what
\* follows the name.  form names what follows, chars are its characters.
Spaces(n) == [i \in 1..n |-> " "]
CreatedAtChars == <<"c", "r", "e", "a", "t", "e", "d", "A", "t">>
ObNames == {<<>>, <<"a">>, CreatedAtChars}
ObDirs ==
    {[form |-> "none", chars |-> <<>>],
     [form |-> "desc", chars |-> <<":", "d", "e", "s", "c">>],
     [form |-> "DESC", chars |-> <<":", "D", "E", "S", "C">>],
     [form |-> "desc in spaces", chars |-> <<":", " ", "d", "e", "s", "c", " ">>],
     [form |-> "asc", chars |-> <<":", "a", "s", "c">>],
     [form |-> "empty", chars |-> <<":">>],
     [form |-> "other", chars |-> <<":", "u", "p">>]}
ObPieces == [lead : 0..1, name : ObNames, trail : 0..1, dir : ObDirs]
ObString(p) == Spaces(p.lead) \o p.name \o Spaces(p.trail) \o p.dir.chars

\* The strings of an orderBy option that is a []string.
ObListPieces ==
    {p \in ObPieces :
        /\ p.lead = 0 /\ p.trail = 0
        /\ \/ p.dir.form = "none" /\ p.name # CreatedAtChars
           \/ p.dir.form = "desc" /\ p.name # <<>>}

\* The option mappings with other keys than orderBy alone.
OptionMaps ==
    {[limit |-> IntV(2)],
     [Limit |-> IntV(1), limit |-> IntV(2)],
     [limit |-> IntV(2), OFFSET |-> IntV(1), Name |-> StrV(1)],
     [startAt |-> IntV(1), endBefore |-> IntV(3), x |-> IntV(0)],
     [startAfter |-> IntV(1), endAt |-> IntV(3)],
     [startAt |-> IntV(1), startAfter |-> IntV(2)],
     [x |-> IntV(0)],
     [orderBy |-> IntV(1)],
     [orderBy |-> Nil],
     [orderBy |-> SliceV(<<>>)],
     [limit |-> StrV(1)],
     [orderBy |-> TextV(ObString([lead |-> 0, name |-> <<"a">>, trail |-> 0,
                                  dir |-> [form |-> "none", chars |-> <<>>]])),
      limit |-> IntV(1)]}

\* The last clause of a condition handed to MakeQuery: kind tells what it is,
\* clause holds it (no clause for kind "none"), ob the pieces its orderBy
\* strings were made of.
QueryFinals ==
    {[kind |-> "none", clause |-> <<>>, ob |-> <<>>]}
    \cup {[kind |-> "orderByString",
           clause |-> <<MapC([orderBy |-> TextV(ObString(p))])>>,
           ob |-> <<p>>] : p \in ObPieces}
    \cup {[kind |-> "orderByString",
           clause |-> <<MapC([ORDERBY |-> TextV(ObString(p))])>>,
           ob |-> <<p>>] : p \in ObListPieces}
    \cup {[kind |-> "orderByStrings",
           clause |-> <<MapC([orderBy |->
                        StringsV([i \in 1..Len(ps) |-> ObString(ps[i])])])>>,
           ob |-> ps] : ps \in SeqsUpTo(ObListPieces, MaxStrings)}
    \cup {[kind |-> "options", clause |-> <<MapC(m)>>, ob |-> <<>>] :
            m \in OptionMaps}

\* The clauses before the last one.
QueryClauses ==
    {TupleC("x", "==", IntV(0)), TupleC(DeletedAtFieldName, "<", IntV(1)),
     MapC([limit |-> IntV(1), x |-> IntV(0)]), OtherC}

QueryPrefixes == SeqsUpTo(QueryClauses, MaxPrefix)

\* The conditions handed to Paginate and PaginateWithCount.
CreatedAtDesc ==
    TextV(ObString([lead |-> 0, name |-> CreatedAtChars, trail |-> 0,
                    dir |-> [form |-> "desc", chars |-> <<":", "d", "e", "s", "c">>]]))

PageClauses ==
    {TupleC(DeletedAtFieldName, "==", Nil), TupleC("x", "==", IntV(0)),
     MapC([x |-> IntV(1)]), MapC([orderBy |-> CreatedAtDesc]),
     MapC([Limit |-> IntV(1)]), MapC([limit |-> IntV(1), offset |-> IntV(1)])}

PageConditions ==
    SeqsUpTo(PageClauses, 2)
    \cup {<<TupleC(DeletedAtFieldName, "==", Nil), MapC([x |-> IntV(1)]),
            MapC([orderBy |-> CreatedAtDesc])>>}

PerPages == {0, 1, 2, DefaultPaginatePerPage}

InitQuery ==
    /\ coll \in {InitColl(n) : n \in QuerySizes}
    /\ pc = "idle" /\ call = NoCall /\ groups = <<>> /\ gi = 0
    /\ batchResults = <<>> /\ errs = <<>> /\ ret = NoRet /\ log = <<>>
    /\ DeltaIdle /\ QueryIdle /\ CopyIdle /\ WriteIdle

CallMakeQuery ==
    /\ qPc = "idle"
    /\ \E prefix \in QueryPrefixes, final \in QueryFinals :
       \E condition \in {prefix \o final.clause} :
       \E iter \in Iters(condition) :
       \E query \in {MakeQuery(condition, iter)} :
          /\ qCall' = [op |-> "MakeQuery", condition |-> condition,
                       iter |-> iter, kind |-> final.kind, ob |-> final.ob]
          /\ qRet' = [query |-> query]
          /\ qPc' = IF query.panicked THEN "panic" ELSE "done"
    /\ UNCHANGED <<collVars, deltaVars, copyVars, writeVars>>

\* The key orders MakeQuery can take in ListDocs called by Paginate.
PaginateIters(condition, page, perPage) ==
    IF condition = <<>> THEN {<<>>}
    ELSE Iters(PaginateCondition(condition, PageOf(page), PerPageOf(perPage)))

\* The key orders MakeQuery can take in CountDocs called by
\* PaginateWithCount.
CountIters(condition, page, perPage) ==
    IF condition = <<>> THEN {<<>>}
    ELSE Iters(CountCondition(ConditionAfterPaginate(condition, PageOf(page),
                                                      PerPageOf(perPage))))

CallPaginate ==
    /\ qPc = "idle"
    /\ \E condition \in PageConditions, page \in 0..MaxPage,
          perPage \in PerPages, ioErr \in IOErrs :
       \E iter \in PaginateIters(condition, page, perPage) :
       \E r \in {Paginate(condition, page, perPage, iter, coll, ioErr)} :
          /\ qCall' = [op |-> "Paginate", condition |-> condition,
                       page |-> page, perPage |-> perPage, ioErr |-> ioErr,
                       iter |-> iter]
          /\ qRet' = r
          /\ qPc' = IF r.panicked THEN "panic" ELSE "done"
    /\ UNCHANGED <<collVars, deltaVars, copyVars, writeVars>>

CallPaginateWithCount ==
    /\ qPc = "idle"
    /\ \E condition \in PageConditions, page \in 0..MaxPage,
          perPage \in PerPages, ioErr \in IOErrs, countErr \in IOErrs :
       \E iter \in PaginateIters(condition, page, perPage) :
       \E countIter \in CountIters(condition, page, perPage) :
       \E r \in {PaginateWithCount(condition, page, perPage, iter, countIter,
                                   coll, ioErr, countErr)} :
          /\ qCall' = [op |-> "PaginateWithCount", condition |-> condition,
                       page |-> page, perPage |-> perPage, ioErr |-> ioErr,
                       countErr |-> countErr, iter |-> iter,
                       countIter |-> countIter]
          /\ qRet' = r
          /\ qPc' = IF r.panicked THEN "panic" ELSE "done"
    /\ UNCHANGED <<collVars, deltaVars, copyVars, writeVars>>

NextQuery == CallMakeQuery \/ CallPaginate \/ CallPaginateWithCount

SpecQuery == InitQuery /\ [][NextQuery]_vars

----------------------------------------------------------------------------
(* Properties of MakeQuery, Paginate and PaginateWithCount (specification  *)
(* SpecQuery).                                                             *)

\* The number of filters clause j of a condition stands for: one for a
\* tuple clause, one per entry for a mapping that is not the last clause.
FiltersOfClause(condition, j) ==
    CASE condition[j].k = "slice" -> 1
      [] condition[j].k = "map" /\ j < Len(condition) ->
            Cardinality(DOMAIN condition[j].m)
      [] OTHER -> 0

\* The number of filters the clauses before clause i stand for.
RECURSIVE FiltersBefore(_, _)
FiltersBefore(condition, i) ==
    IF i <= 1 THEN 0
    ELSE FiltersBefore(condition, i - 1) + FiltersOfClause(condition, i - 1)

\* The field names of the orderBy strings made of the pieces ps that have
\* one, in order.
NamesOf(ps) ==
    LET named == SelectSeq(ps, LAMBDA p : p.name # <<>>)
    IN  [i \in 1..Len(named) |-> named[i].name]

MakeQueryReturned == qPc = "done" /\ qCall.op = "MakeQuery"

\* C6: MakeQuery applies the filters of the tuple clauses in the order of
\* the clauses (the filter of a tuple clause comes right after the filters
\* of the clauses before it), and the order-by entries of the orderBy option
\* of a trailing mapping in the order of the strings of the option.
C6_FiltersAndOrdersInInputOrder ==
    MakeQueryReturned =>
        /\ \A i \in 1..Len(qCall.condition) :
              qCall.condition[i].k = "slice" =>
                 /\ FiltersBefore(qCall.condition, i) + 1 <= Len(qRet.query.filters)
                 /\ qRet.query.filters[FiltersBefore(qCall.condition, i) + 1]
                        = [path |-> qCall.condition[i].path,
                           op |-> qCall.condition[i].op,
                           val |-> qCall.condition[i].val]
        /\ qCall.kind \in {"orderByString", "orderByStrings"} =>
              [i \in 1..Len(qRet.query.orders) |-> qRet.query.orders[i].Field]
                  = NamesOf(qCall.ob)

C6_Witness ==
    /\ MakeQueryReturned
    /\ qCall.kind = "orderByStrings"
    /\ Len(qRet.query.orders) = 2
    /\ qRet.query.orders[1].Field # qRet.query.orders[2].Field
    /\ Len(qCall.condition) = 3
    /\ qCall.condition[1].k = "map" /\ qCall.condition[2].k = "slice"
    /\ Len(qRet.query.filters) = 3

\* The keys of a mapping that are the option lower but for the case of
\* their letters.
KeysLike(m, lower) == {key \in DOMAIN m : ToLower(key) = lower}

\* The last clause of a condition when it is a mapping, the empty mapping
\* otherwise.
LastMap(condition) ==
    IF condition # <<>> /\ condition[Len(condition)].k = "map"
    THEN condition[Len(condition)].m ELSE <<>>

\* The modifier slot has the value of one of the keys of the mapping m
\* among ks, as made by mk, and is not set when there is no such key.
SlotFrom(slot, m, ks, mk(_, _)) ==
    IF ks = {} THEN slot = <<>> ELSE slot \in {<<mk(key, m[key])>> : key \in ks}

\* C7: a mapping that is not the last clause adds one filter key == value
\* per entry (also for a key like limit) and no modifier; a mapping that is
\* the last clause adds no filter, applies a modifier per recognized key,
\* whatever the case of its letters, and ignores the other keys.
C7_MappingIsFiltersUnlessLast ==
    MakeQueryReturned =>
        LET condition == qCall.condition
            n == Len(qCall.condition)
            q == qRet.query
            m == LastMap(qCall.condition)
        IN  /\ Len(q.filters) = FiltersBefore(condition, n + 1)
            /\ \A i \in 1..(n - 1) : condition[i].k = "map" =>
                  \A key \in DOMAIN condition[i].m :
                     \E f \in (FiltersBefore(condition, i) + 1)
                                ..FiltersBefore(condition, i + 1) :
                        q.filters[f] = [path |-> key, op |-> "==",
                                        val |-> condition[i].m[key]]
            /\ SlotFrom(q.limit, m, KeysLike(m, "limit"), LAMBDA key, val : val.v)
            /\ SlotFrom(q.offset, m, KeysLike(m, "offset"), LAMBDA key, val : val.v)
            /\ SlotFrom(q.start, m, KeysLike(m, "startat") \cup KeysLike(m, "startafter"),
                        LAMBDA key, val : [val |-> val,
                                           before |-> ToLower(key) = "startat"])
            /\ SlotFrom(q.end, m, KeysLike(m, "endat") \cup KeysLike(m, "endbefore"),
                        LAMBDA key, val : [val |-> val,
                                           before |-> ToLower(key) = "endbefore"])
            /\ KeysLike(m, "orderby") = {} => q.orders = <<>>

C7_Witness ==
    /\ MakeQueryReturned
    /\ Len(qCall.condition) = 2
    /\ qCall.condition[1] = MapC([limit |-> IntV(1), x |-> IntV(0)])
    /\ qCall.condition[2] = MapC([limit |-> IntV(2), OFFSET |-> IntV(1),
                                  Name |-> StrV(1)])
    /\ Len(qRet.query.filters) = 2
    /\ qRet.query.limit = <<2>> /\ qRet.query.offset = <<1>>

\* The filter clauses of a condition hold for a document: its tuple clauses
\* and the entries of its mappings that are not the last clause.
ClausesHold(condition, data) ==
    \A i \in 1..Len(condition) :
        CASE condition[i].k = "slice" ->
                FilterHolds([path |-> condition[i].path, op |-> condition[i].op,
                             val |-> condition[i].val], data)
          [] condition[i].k = "map" /\ i < Len(condition) ->
                \A key \in DOMAIN condition[i].m :
                    key \in DOMAIN data /\ data[key] = condition[i].m[key]
          [] OTHER -> TRUE

MatchingCount(condition, c) ==
    Cardinality({i \in 1..Len(c) : c[i] # Absent /\ ClausesHold(condition, c[i])})

CeilDiv(a, b) == (a + b - 1) \div b

\* C8: for page >= 1 and perPage >= 1, Paginate runs the query with limit
\* perPage and offset (page - 1) * perPage, whether the condition ends in a
\* tuple clause or in a mapping, and PaginateWithCount returns as count the
\* number of documents the filter clauses hold for and as totalPage
\* ceil(count / perPage).
C8_PaginateLimitOffsetAndCount ==
    (/\ qPc = "done" /\ qCall.op \in {"Paginate", "PaginateWithCount"}
     /\ qRet.err = NoErr /\ qCall.page >= 1 /\ qCall.perPage >= 1) =>
        /\ qRet.query.limit = <<qCall.perPage>>
        /\ qRet.query.offset = <<(qCall.page - 1) * qCall.perPage>>
        /\ qCall.op = "PaginateWithCount" =>
              /\ qRet.val.count = MatchingCount(qCall.condition, coll)
              /\ qRet.val.totalPage
                    = CeilDiv(MatchingCount(qCall.condition, coll), qCall.perPage)

\* C10: an orderBy string "field:desc" in a trailing mapping gives exactly
\* the order-by entry (field, descending), a string without direction the
\* entry (field, ascending), and a string that is empty or has no field name
\* between its white space gives no entry.
C10_OrderByStringCompiles ==
    (MakeQueryReturned /\ qCall.kind = "orderByString") =>
        /\ qCall.ob[1].name = <<>> => qRet.query.orders = <<>>
        /\ (qCall.ob[1].name # <<>> /\ qCall.ob[1].dir.form = "desc") =>
              qRet.query.orders
                  = <<[Field |-> qCall.ob[1].name, Direction |-> "desc"]>>
        /\ (qCall.ob[1].name # <<>> /\ qCall.ob[1].dir.form = "none") =>
              qRet.query.orders
                  = <<[Field |-> qCall.ob[1].name, Direction |-> "asc"]>>

C10_Witness ==
    /\ MakeQueryReturned
    /\ qCall.condition
          = <<MapC([orderBy |-> TextV(<<"c", "r", "e", "a", "t", "e", "d", "A", "t",
                                        ":", "d", "e", "s", "c">>)])>>
    /\ qRet.query.orders
          = <<[Field |-> <<"c", "r", "e", "a", "t", "e", "d", "A", "t">>,
               Direction |-> "desc"]>>

----------------------------------------------------------------------------
(* Specification SpecCopy: the copy makeUpdateData makes of oldDoc, in     *)
(* memory, and a transform that writes in place to what it was handed.     *)
(* The memory is a sequence of maps and of backing arrays of slices; its   *)
(* indices are the addresses.  A map or a slice holds nil, scalars and     *)
(* references to maps and slices.                                          *)

\* Bounds: the writes of a transform, and the depth to which the value of a
\* document is read.
MaxFnSteps == 2
MaxDepth == 5

Ref(a) == [k |-> "ref", a |-> a]
MapObj(m) == [k |-> "map", m |-> m]
SliceObj(s) == [k |-> "slice", s |-> s]

\* The keys of a map in the order reflect.Value.MapKeys returns them; the
\* order decides the addresses of the copies only.
KeySeq(m) == CHOOSE o \in KeyOrders(m) : TRUE

\* dstMap.SetMapIndex(key, reflect.ValueOf(val)), helpers.go:99: the zero
\* Value of a nil interface deletes the key.
SetMapIndex(heap, dst, key, val) ==
    IF val.k = "nil"
    THEN [heap EXCEPT ![dst].m = [x \in DOMAIN @ \ {key} |-> @[x]]]
    ELSE [heap EXCEPT ![dst].m = Assign(@, (key :> val))]

\* deepCopyMap that copies a map or a slice without copying what it holds.
CopyValue_Shallow(heap, src) ==
    IF src.k # "ref" THEN [heap |-> heap, val |-> src, panicked |-> FALSE]
    ELSE [heap |-> Append(heap, heap[src.a]), val |-> Ref(Len(heap) + 1),
          panicked |-> FALSE]

RECURSIVE CopyValue(_, _)
RECURSIVE CopyEntries(_, _, _, _, _)
RECURSIVE EntryCopied(_, _, _, _, _)
RECURSIVE CopyElems(_, _, _, _)
RECURSIVE ElemCopied(_, _, _, _)

\* deepCopyMap(src) in the memory heap, helpers.go:92-114: the memory after
\* the call, the value returned, and whether the call panicked.
CopyValue(heap, src) ==
    IF src.k # "ref" THEN [heap |-> heap, val |-> src, panicked |-> FALSE]
    ELSE IF heap[src.a].k = "map"
    \* reflect.MakeMap
    THEN CopyEntries(Append(heap, MapObj(<<>>)), src.a, Len(heap) + 1,
                     KeySeq(heap[src.a].m), 1)
    \* reflect.MakeSlice and reflect.Copy
    ELSE CopyElems(Append(heap, heap[src.a]), src.a, Len(heap) + 1, 1)

\* The loop over the keys of the map at src, helpers.go:98-100.
CopyEntries(heap, src, dst, keys, i) ==
    IF i > Len(keys) THEN [heap |-> heap, val |-> Ref(dst), panicked |-> FALSE]
    ELSE EntryCopied(CopyValue(heap, heap[src].m[keys[i]]), src, dst, keys, i)

EntryCopied(r, src, dst, keys, i) ==
    IF r.panicked THEN r
    ELSE CopyEntries(SetMapIndex(r.heap, dst, keys[i], r.val), src, dst, keys, i + 1)

\* The loop over the elements of the slice at src, helpers.go:106-108.
CopyElems(heap, src, dst, i) ==
    IF i > Len(heap[src].s) THEN [heap |-> heap, val |-> Ref(dst), panicked |-> FALSE]
    ELSE ElemCopied(CopyValue(heap, heap[src].s[i]), src, dst, i)

\* reflect.Value.Set with the zero Value of a nil interface panics.
ElemCopied(r, src, dst, i) ==
    IF r.panicked \/ r.val.k = "nil" THEN [r EXCEPT !.panicked = TRUE]
    ELSE CopyElems([r.heap EXCEPT ![dst].s[i] = r.val], src, dst, i + 1)

\* The addresses a map or a slice holds.
RefsIn(obj) ==
    IF obj.k = "map"
    THEN {obj.m[key].a : key \in {x \in DOMAIN obj.m : obj.m[x].k = "ref"}}
    ELSE {obj.s[i].a : i \in {j \in 1..Len(obj.s) : obj.s[j].k = "ref"}}

\* The addresses that can be reached from the addresses as.
RECURSIVE ReachFrom(_, _)
ReachFrom(heap, as) ==
    IF UNION {RefsIn(heap[a]) : a \in as} \subseteq as THEN as
    ELSE ReachFrom(heap, as \cup UNION {RefsIn(heap[a]) : a \in as})

\* The value at v read to the depth fuel: what a reader of the document
\* sees, whatever the addresses.
RECURSIVE ValueOf(_, _, _)
ValueOf(heap, v, fuel) ==
    IF v.k # "ref" THEN v
    ELSE IF fuel = 0 THEN [k |-> "deep"]
    ELSE IF heap[v.a].k = "map"
    THEN MapV([key \in DOMAIN heap[v.a].m |->
                  ValueOf(heap, heap[v.a].m[key], fuel - 1)])
    ELSE SliceV([i \in 1..Len(heap[v.a].s) |->
                  ValueOf(heap, heap[v.a].s[i], fuel - 1)])

\* Documents in memory, oldDoc at address 1.
HeapDocs ==
    {<<MapObj([id |-> IntV(1)])>>,
     <<MapObj([a |-> IntV(1), m |-> Ref(2)]), MapObj([b |-> IntV(2), s |-> Ref(3)]),
       SliceObj(<<Ref(4), IntV(5)>>), MapObj([c |-> IntV(3)])>>,
     <<MapObj([s |-> Ref(2)]), SliceObj(<<IntV(1), Ref(3)>>), SliceObj(<<IntV(2)>>)>>,
     <<MapObj([n |-> Nil, a |-> IntV(1), m |-> Ref(2)]), MapObj([n |-> Nil])>>,
     <<MapObj([s |-> Ref(2)]), SliceObj(<<Nil>>)>>,
     <<MapObj([p |-> Ref(2), q |-> Ref(2)]), MapObj([a |-> IntV(1)])>>}

\* What a transform writes: keys, and values (nil, a scalar, or a map or
\* slice it can reach).
FnKeys == {"a", "m", "z"}
FnVals(reach) == {Nil, IntV(9)} \cup {Ref(a) : a \in reach}

InitCopy ==
    /\ CollIdle /\ DeltaIdle /\ QueryIdle /\ WriteIdle
    /\ hHeap \in HeapDocs
    /\ hOld = 1
    /\ hCopy = 0
    /\ hShot = ValueOf(hHeap, Ref(1), MaxDepth)
    /\ hTouched = {}
    /\ hSteps = 0
    /\ hPc = "call"

\* newDoc := deepCopyMap(oldDoc), part_000:181.
DeepCopy ==
    /\ hPc = "call"
    /\ \E r \in {CopyValue(hHeap, Ref(hOld))} :
          /\ hHeap' = r.heap
          /\ hCopy' = IF r.panicked THEN 0 ELSE r.val.a
          /\ hPc' = IF r.panicked THEN "panic" ELSE "fn"
    /\ UNCHANGED <<hOld, hShot, hTouched, hSteps>>
    /\ UNCHANGED <<collVars, deltaVars, queryVars, writeVars>>

\* The transform can reach what it was handed, newDoc.
FnReach == ReachFrom(hHeap, {hCopy})

\* m[key] = val in the transform.
FnMapSet ==
    /\ hPc = "fn" /\ hSteps < MaxFnSteps
    /\ \E a \in FnReach, key \in FnKeys, val \in FnVals(FnReach) :
          /\ hHeap[a].k = "map"
          /\ hHeap' = [hHeap EXCEPT ![a].m = Assign(@, (key :> val))]
          /\ hTouched' = hTouched \cup {a}
    /\ hSteps' = hSteps + 1
    /\ UNCHANGED <<hOld, hCopy, hShot, hPc>>
    /\ UNCHANGED <<collVars, deltaVars, queryVars, writeVars>>

\* m[key] = map[string]any{} in the transform.
FnMapSetNew ==
    /\ hPc = "fn" /\ hSteps < MaxFnSteps
    /\ \E a \in FnReach, key \in FnKeys :
          /\ hHeap[a].k = "map"
          /\ hHeap' = Append([hHeap EXCEPT ![a].m =
                                Assign(@, (key :> Ref(Len(hHeap) + 1)))],
                             MapObj(<<>>))
          /\ hTouched' = hTouched \cup {a}
    /\ hSteps' = hSteps + 1
    /\ UNCHANGED <<hOld, hCopy, hShot, hPc>>
    /\ UNCHANGED <<collVars, deltaVars, queryVars, writeVars>>

\* delete(m, key) in the transform.
FnMapDelete ==
    /\ hPc = "fn" /\ hSteps < MaxFnSteps
    /\ \E a \in FnReach :
          /\ hHeap[a].k = "map"
          /\ \E key \in DOMAIN hHeap[a].m :
                hHeap' = [hHeap EXCEPT ![a].m = [x \in DOMAIN @ \ {key} |-> @[x]]]
          /\ hTouched' = hTouched \cup {a}
    /\ hSteps' = hSteps + 1
    /\ UNCHANGED <<hOld, hCopy, hShot, hPc>>
    /\ UNCHANGED <<collVars, deltaVars, queryVars, writeVars>>

\* s[i] = val in the transform.
FnSliceSet ==
    /\ hPc = "fn" /\ hSteps < MaxFnSteps
    /\ \E a \in FnReach, val \in FnVals(FnReach) :
          /\ hHeap[a].k = "slice"
          /\ \E i \in 1..Len(hHeap[a].s) :
                hHeap' = [hHeap EXCEPT ![a].s[i] = val]
          /\ hTouched' = hTouched \cup {a}
    /\ hSteps' = hSteps + 1
    /\ UNCHANGED <<hOld, hCopy, hShot, hPc>>
    /\ UNCHANGED <<collVars, deltaVars, queryVars, writeVars>>

\* The transform returns (or there is none), and makeUpdateData goes on to
\* read oldDoc, part_000:185-204.
FnReturn ==
    /\ hPc = "fn"
    /\ hPc' = "done"
    /\ UNCHANGED <<hHeap, hOld, hCopy, hShot, hTouched, hSteps>>
    /\ UNCHANGED <<collVars, deltaVars, queryVars, writeVars>>

NextCopy ==
    DeepCopy \/ FnMapSet \/ FnMapSetNew \/ FnMapDelete \/ FnSliceSet \/ FnReturn

SpecCopy == InitCopy /\ [][NextCopy]_vars

\* C5: whatever a transform writes in place, at any depth, to the copy it
\* was handed, oldDoc reads as it did when makeUpdateData was called, and no
\* map or slice can be reached from both oldDoc and the copy.
C5_BaselineUnchangedByTransform ==
    hPc \in {"fn", "done"} =>
        /\ ValueOf(hHeap, Ref(hOld), MaxDepth) = hShot
        /\ ReachFrom(hHeap, {hOld}) \cap ReachFrom(hHeap, {hCopy}) = {}

C5_Witness ==
    /\ hPc = "done"
    /\ \E a \in hTouched : a # hCopy /\ hHeap[a].k = "map"
    /\ \E a \in hTouched : hHeap[a].k = "slice"
    /\ ValueOf(hHeap, Ref(hCopy), MaxDepth) # hShot

----------------------------------------------------------------------------
(* Specification SpecWrite: sequences of calls of the write path           *)
(* (AddDocData, AddDoc, AddDocWithId, UpdateDoc, DeleteDoc, BatchDocs,     *)
(* DeleteDocs) on a collection that starts empty.  The document            *)
(* identifiers are 1..MaxIds; document i of coll is Absent until a call    *)
(* writes it.                                                              *)

\* Bounds: the document identifiers, and the calls of a sequence.
MaxIds == 2
MaxCalls == 2

\* A nil map as caller data: an assignment to an entry of it panics.
NilData == [nilmap |-> TRUE]

\* The data of the caller.
WriteData ==
    {NilData, <<>>, [a |-> IntV(1)], [id |-> IntV(0)]}
    \cup {[id |-> StrV(k)] : k \in 1..MaxIds}

\* The uid of the caller: a nil pointer or a string.
WriteUids == {Nil, StrV(1)}

WriteConditions == {<<>>, <<TupleC(DeletedAtFieldName, "==", Nil)>>}

WriteFns ==
    {FnIdentity, FnSet("a", IntV(3)), FnDelete(CreatedAtFieldName),
     FnSet(IdFieldName, StrV(1))}

\* v after AddDocWithId set its fields, part_000:76-89.
AddDocFields(id, uid, v) ==
    Assign(Assign(v, IF uid # Nil THEN (UidFieldName :> uid) ELSE <<>>),
           (CreatedAtFieldName :> Now) @@ (UpdatedAtFieldName :> Now)
           @@ (DeletedAtFieldName :> Nil) @@ (IdFieldName :> StrV(id)))

\* ref.Set(ctx, v), part_000:91: the document is v, whatever it was.
Set(c, id, v) == [c EXCEPT ![id] = v]

\* ref.Set(ctx, data, firestore.MergeAll), part_000:152: the fields of data
\* over those of the document, which is created when there is none.
SetMergeAll(c, id, data) ==
    [c EXCEPT ![id] = IF @ = Absent THEN data ELSE Assign(@, data)]

\* data after UpdateDoc set its field, part_000:151.
UpdateDocData(data) == Assign(data, (UpdatedAtFieldName :> Now))

\* The identifiers NewDoc can give: those of no document.
FreshIds(c) == {i \in 1..Len(c) : c[i] = Absent}

InitWrite ==
    /\ coll = [i \in 1..MaxIds |-> Absent]
    /\ pc = "idle" /\ call = NoCall /\ groups = <<>> /\ gi = 0
    /\ batchResults = <<>> /\ errs = <<>> /\ ret = NoRet /\ log = <<>>
    /\ DeltaIdle /\ QueryIdle /\ CopyIdle /\ WriteIdle

\* A call that ends with the collection c2.
WriteCall(last, c2) ==
    /\ wCalls < MaxCalls
    /\ wCalls' = wCalls + 1
    /\ wLast' = last
    /\ coll' = c2
    /\ UNCHANGED <<pc, call, groups, gi, batchResults, errs, ret, log>>
    /\ UNCHANGED <<deltaVars, queryVars, copyVars>>

\* AddDocWithId(&id, uid, v), part_000:75-96, as the call op made it.
CallAddDocWithId(op, id, uid, v, ioErr) ==
    WriteCall([op |-> op, id |-> id, uid |-> uid, data |-> v, ioErr |-> ioErr,
               panicked |-> v = NilData],
              IF v = NilData \/ ioErr # NoErr THEN coll
              ELSE Set(coll, id, AddDocFields(id, uid, v)))

\* AddDocWithId with an id, or with a nil id (the id is then that of NewDoc).
AddDocWithId ==
    \E uid \in WriteUids, v \in WriteData, ioErr \in IOErrs :
       \/ \E id \in 1..MaxIds : CallAddDocWithId("AddDocWithId", id, uid, v, ioErr)
       \/ \E id \in FreshIds(coll) :
             CallAddDocWithId("AddDocWithId nil", id, uid, v, ioErr)

\* AddDoc, part_000:65-73: the id is the prefix and the id of NewDoc, the
\* identifier of no document.
AddDoc ==
    \E id \in FreshIds(coll), uid \in WriteUids, v \in WriteData, ioErr \in IOErrs :
       CallAddDocWithId("AddDoc", id, uid, v, ioErr)

\* AddDocData, part_000:61-63.
AddDocData ==
    \E id \in FreshIds(coll), v \in WriteData, ioErr \in IOErrs :
       CallAddDocWithId("AddDocData", id, Nil, v, ioErr)

\* UpdateDoc(id, data) as the call op made it, part_000:150-153.
CallUpdateDoc(op, id, data, ioErr) ==
    WriteCall([op |-> op, id |-> id, data |-> data, ioErr |-> ioErr,
               panicked |-> data = NilData],
              IF data = NilData \/ ioErr # NoErr THEN coll
              ELSE SetMergeAll(coll, id, UpdateDocData(data)))

UpdateDoc ==
    \E id \in 1..MaxIds, data \in WriteData, ioErr \in IOErrs :
       CallUpdateDoc("UpdateDoc", id, data, ioErr)

\* DeleteDoc, part_000:256-263.
DeleteDoc ==
    \E id \in 1..MaxIds, ioErr \in IOErrs :
       \/ CallUpdateDoc("DeleteDoc soft", id, (DeletedAtFieldName :> Now), ioErr)
       \/ WriteCall([op |-> "DeleteDoc", id |-> id, ioErr |-> ioErr,
                     panicked |-> FALSE],
                    IF ioErr # NoErr THEN coll ELSE [coll EXCEPT ![id] = Absent])

\* The failing writes of the bulk writer of a call: the identifiers whose
\* submission fails and those whose result is an error.
WriteFails ==
    {<<{}, {}>>} \cup {<<{i}, {}>> : i \in 1..MaxIds}
    \cup {<<{}, {i}>> : i \in 1..MaxIds}

\* doc[IdFieldName].(string) panics, part_000:216 and 281.
NoStringId(doc) == MapIndex(doc, IdFieldName).k # "string"

\* The documents the loop over docs handles before that panic.
BeforePanic(docs) ==
    IF \A j \in 1..Len(docs) : ~NoStringId(docs[j]) THEN docs
    ELSE SubSeq(docs, 1,
                (CHOOSE j \in 1..Len(docs) :
                    NoStringId(docs[j])
                    /\ \A h \in 1..(j - 1) : ~NoStringId(docs[h])) - 1)

\* The writes among ws that the server applies when it gets them: an update
\* of a document there is (it answers NotFound for another one), any delete.
Applicable(c, ws) ==
    SelectSeq(ws, LAMBDA w : w.op = "delete" \/ c[w.ref] # Absent)

\* The outcome of a call that used bulk writers: the collection after the
\* writes whose results were read, whether the call panicked, and the writes
\* handed to the last bulk writer before the panic, of which any may have
\* been sent.
BulkOutcome(c, panicked, queued) ==
    [coll |-> c, panicked |-> panicked, queued |-> queued]

RECURSIVE WriteBatchGroups(_, _, _, _, _, _)
RECURSIVE WriteGroupDone(_, _, _, _, _, _, _)

\* The loop of BatchDocs from group g on, part_000:168-175, on the
\* collection c.
WriteBatchGroups(c, gs, g, batchFn, submitFail, resultFail) ==
    IF g > Len(gs) THEN BulkOutcome(c, FALSE, <<>>)
    ELSE WriteGroupDone(c,
            batchEach500Docs(gs[g], batchFn, submitFail,
                             resultFail \cup FreshIds(c)),
            gs, g, batchFn, submitFail, resultFail)

WriteGroupDone(c, r, gs, g, batchFn, submitFail, resultFail) ==
    IF r.panicked
    THEN BulkOutcome(c, TRUE,
                     batchEach500Docs(BeforePanic(gs[g]), batchFn, {}, {}).writes)
    ELSE WriteBatchGroups(ApplyWrites(c, r.done), gs, g + 1, batchFn,
                          submitFail, resultFail)

\* The bulk writer of DeleteDocs, part_000:276-313, for the writes of the
\* documents reached.
DeleteJobs(c, writes, panicked, softDelete, submitFail, resultFail) ==
    IF panicked THEN BulkOutcome(c, TRUE, writes)
    ELSE BulkOutcome(
            ApplyWrites(c, RunJobs(writes, submitFail,
                                   IF softDelete THEN resultFail \cup FreshIds(c)
                                   ELSE resultFail).done),
            FALSE, <<>>)

WriteDeleteDocs(c, docs, softDelete, submitFail, resultFail) ==
    DeleteJobs(c, DeleteWrites(BeforePanic(docs), softDelete),
               Len(BeforePanic(docs)) < Len(docs), softDelete,
               submitFail, resultFail)

\* The collection after the writes of queued to the documents of keep were
\* applied too.
AfterQueued(r, keep) ==
    ApplyWrites(r.coll,
                Applicable(r.coll, SelectSeq(r.queued, LAMBDA w : w.ref \in keep)))

QueuedRefs(r) == {r.queued[i].ref : i \in 1..Len(r.queued)}

\* BatchDocs, part_000:155-178, as one call.
BatchDocs ==
    \E condition \in WriteConditions, batchFn \in WriteFns, ioErr \in IOErrs,
       fail \in WriteFails :
    \E iter \in Iters(condition) :
    \E listed \in {ListDocs(condition, iter, coll, ioErr)} :
       IF listed.err # NoErr \/ listed.docs = <<>>
       THEN WriteCall([op |-> "BatchDocs", condition |-> condition,
                       batchFn |-> batchFn, ioErr |-> ioErr, panicked |-> FALSE],
                      coll)
       ELSE \E r \in {WriteBatchGroups(coll, Chunk(listed.docs, ChunkSize), 1,
                                       batchFn, fail[1], fail[2])} :
            \E keep \in SUBSET QueuedRefs(r) :
               WriteCall([op |-> "BatchDocs", condition |-> condition,
                          batchFn |-> batchFn, ioErr |-> ioErr,
                          panicked |-> r.panicked],
                         AfterQueued(r, keep))

\* DeleteDocs, part_000:265-315, as one call.
DeleteDocsCall ==
    \E condition \in WriteConditions, softDelete \in BOOLEAN, ioErr \in IOErrs,
       fail \in WriteFails :
    \E iter \in Iters(condition) :
    \E listed \in {ListDocs(condition, iter, coll, ioErr)} :
       IF listed.err # NoErr \/ listed.docs = <<>>
       THEN WriteCall([op |-> "DeleteDocs", condition |-> condition,
                       softDelete |-> softDelete, ioErr |-> ioErr,
                       panicked |-> FALSE],
                      coll)
       ELSE \E r \in {WriteDeleteDocs(coll, listed.docs, softDelete,
                                      fail[1], fail[2])} :
            \E keep \in SUBSET QueuedRefs(r) :
               WriteCall([op |-> "DeleteDocs", condition |-> condition,
                          softDelete |-> softDelete, ioErr |-> ioErr,
                          panicked |-> r.panicked],
                         AfterQueued(r, keep))

NextWrite ==
    \/ AddDocData \/ AddDoc \/ AddDocWithId \/ UpdateDoc \/ DeleteDoc
    \/ BatchDocs \/ DeleteDocsCall

SpecWrite == InitWrite /\ [][NextWrite]_vars

\* C11: after any sequence of calls of the write path, every document of
\* the collection has the fields id, createdAt, updatedAt and deletedAt,
\* and its id field is its document identifier.
C11_StoredDocumentsCarryManagedFields ==
    \A i \in 1..Len(coll) :
        coll[i] # Absent =>
            /\ {IdFieldName, CreatedAtFieldName, UpdatedAtFieldName,
                DeletedAtFieldName} \subseteq DOMAIN coll[i]
            /\ coll[i][IdFieldName] = StrV(i)

====
